---------------------------- MODULE Spec2Model ----------------------------
(***************************************************************************)
(* A model of grumpy's compiler/block.py: the blocks (module, class,       *)
(* function) of one compiled unit with their scratch-variable pools,       *)
(* labels, loop stacks, the unit's interned strings and Go imports, the    *)
(* three name operations and the BlockVisitor that classifies variables.   *)
(*                                                                         *)
(* Python strings whose characters matter (temp names, package names,      *)
(* interned strings) are sequences of one-character strings.  Python's     *)
(* None is the block id 0 where a block is expected.                       *)
(***************************************************************************)
EXTENDS Integers, Sequences, FiniteSets, TLC

VARIABLES
    blocks,     \* the Block objects constructed so far, by id (1 is the ModuleBlock)
    strings,    \* ModuleBlock._strings
    imports,    \* ModuleBlock.imports: a dict, package name -> Package
    runtime,    \* ModuleBlock._runtime
    libroot,    \* ModuleBlock._libroot
    npackages,  \* how many Package objects were constructed (object identity)
    writer,     \* the fragments written to the Writer, in order
    ret,        \* the last call: what was called, on which block, what it returned or raised
    chain,      \* how far the last calls are into alloc_temp, free_temp, alloc_temp
    allocated,  \* per block: the GeneratedTempVars alloc_temp has constructed
    handed,     \* per block: the label ids handed out, in order, with who asked
    loop_log,   \* per block: the Loops push_loop returned and pop_loop removed
    first_reg,  \* per package name: the Package registered by the first call
    visitor,    \* the BlockVisitor at work: vars (an OrderedDict), is_generator
    visited,    \* the statements the visitor was given, in order
    calls       \* per block, in a unit that keeps the log: the alloc_temp, free_temp,
                \* genlabel, push_loop and pop_loop calls made on it, with their results

vars == <<blocks, strings, imports, runtime, libroot, npackages, writer, ret,
          chain, allocated, handed, loop_log, first_reg, visitor, visited, calls>>

(***************************************************************************)
(* Bounds of the model.                                                    *)
(***************************************************************************)
MaxBlocks == 2      \* blocks of a unit that is built block by block, ModuleBlock included
MaxTemps == 2       \* temps the blocks of a unit synthesize, all together
MaxLabels == 2      \* genlabel calls made on the blocks of a unit, all together
MaxArgs == 2        \* positional parameters of a function
MaxBody == 3        \* statements of a body given to a visitor
MaxCalls == 3       \* calls in the log of a unit that keeps one, all blocks together
MaxLoops == 3       \* push_loop calls made on the blocks of a unit, all together
MaxWrites == 1      \* fragments in the writer when a scope operation is called
MaxDepth == 3       \* scopes nested under the ModuleBlock

None == 0

(***************************************************************************)
(* Characters.  ord() of the characters the model uses.                    *)
(***************************************************************************)
Digits == <<"0", "1", "2", "3", "4", "5", "6", "7", "8", "9">>

Lower == <<"a", "b", "c", "d", "e", "f", "g", "h", "i", "j", "k", "l", "m",
           "n", "o", "p", "q", "r", "s", "t", "u", "v", "w", "x", "y", "z">>

Upper == <<"A", "B", "C", "D", "E", "F", "G", "H", "I", "J", "K", "L", "M",
           "N", "O", "P", "Q", "R", "S", "T", "U", "V", "W", "X", "Y", "Z">>

Index(seq, c) == CHOOSE i \in 1..Len(seq) : seq[i] = c

InSeq(seq, c) == \E i \in 1..Len(seq) : seq[i] = c

ord(c) ==
    CASE InSeq(Digits, c) -> 47 + Index(Digits, c)
      [] InSeq(Upper, c) -> 64 + Index(Upper, c)
      [] InSeq(Lower, c) -> 96 + Index(Lower, c)
      [] c = " " -> 32
      [] c = "-" -> 45
      [] c = "." -> 46
      [] c = "/" -> 47
      [] c = "_" -> 95
      [] c = "ß" -> 223
      [] c = "Γ" -> 915
      [] c = "π" -> 960

\* Python's < on two strings: by code point, a proper prefix first.
RECURSIVE StrLess(_, _)
StrLess(s, t) ==
    IF t = <<>> THEN FALSE
    ELSE IF s = <<>> THEN TRUE
    ELSE IF ord(Head(s)) # ord(Head(t)) THEN ord(Head(s)) < ord(Head(t))
    ELSE StrLess(Tail(s), Tail(t))

\* str(n) for n >= 0.
RECURSIVE Str(_)
Str(n) == IF n < 10 THEN <<Digits[n + 1]>> ELSE Str(n \div 10) \o <<Digits[(n % 10) + 1]>>

\* '{:03d}'.format(n): zero-padded to three digits, longer when n needs it.
Format03d(n) ==
    LET s == Str(n)
    IN  IF Len(s) >= 3 THEN s ELSE [i \in 1..(3 - Len(s)) |-> "0"] \o s

(***************************************************************************)
(* Block.__init__ and the three constructors.                              *)
(***************************************************************************)
\* The walk of Block.__init__ from a block to its ModuleBlock.
RECURSIVE FindModuleBlock(_, _)
FindModuleBlock(bs, block) ==
    IF block # None /\ bs[block].kind # "Module"
    THEN FindModuleBlock(bs, bs[block].parent_block)
    ELSE block

Block(bs, kind, parent_block, name) ==
    [kind |-> kind,
     parent_block |-> parent_block,
     name |-> name,
     free_temps |-> {},
     used_temps |-> {},
     temp_index |-> 0,
     label_count |-> 0,
     checkpoints |-> {},
     loop_stack |-> <<>>,
     is_generator |-> FALSE,
     _module_block |-> IF kind = "Module" THEN Len(bs) + 1
                       ELSE FindModuleBlock(bs, parent_block),
     vars |-> <<>>,
     global_vars |-> {}]

BlockIds == 1..Len(blocks)

NoCall == [op |-> "none", block |-> None]

\* No temp: what the loop of alloc_temp is left with when it finds nothing.
NoTemp == [block |-> None, name |-> <<>>, type_ |-> <<>>]

\* chain.n = 1: the last call was alloc_temp(type_) and returned v;
\* chain.n = 2: then free_temp(v) on the same block, and it did not raise;
\* chain.n = 3: then alloc_temp(type_) on the same block (ret holds what it returned).
NoChain == [n |-> 0, type_ |-> <<>>, v |-> NoTemp]

\* ClassBlock(parent_block, name, global_vars), the next block after bs
ClassBlock(bs, parent_block, name, global_vars) ==
    [Block(bs, "Class", parent_block, name) EXCEPT !.global_vars = global_vars]

\* FunctionBlock(parent_block, name, block_vars, is_generator), the next block after bs
FunctionBlock(bs, parent_block, name, block_vars, is_generator) ==
    [Block(bs, "Function", parent_block, name) EXCEPT !.vars = block_vars,
                                                      !.is_generator = is_generator]

\* ModuleBlock(full_package_name, runtime, libroot, filename, lines): its Block part
ModuleBlock == Block(<<>>, "Module", None, "<module>")

\* ModuleBlock(...) with its own fields, and then the blocks `more` constructed under
\* it before anything else is called; log is the empty log of each block, or <<>>
\* for a unit that keeps no log.
UnitInit(rt, lr, more, log) ==
    /\ blocks = <<ModuleBlock>> \o more
    /\ strings = {}
    /\ imports = <<>>
    /\ runtime = rt
    /\ libroot = lr
    /\ npackages = 0
    /\ writer = <<>>
    /\ ret = NoCall
    /\ chain = NoChain
    /\ allocated = [b \in 1..(1 + Len(more)) |-> {}]
    /\ handed = [b \in 1..(1 + Len(more)) |-> <<>>]
    /\ loop_log = [b \in 1..(1 + Len(more)) |-> <<>>]
    /\ first_reg = <<>>
    /\ visitor = [active |-> FALSE]
    /\ visited = <<>>
    /\ calls = log

ModuleBlockInit(rt, lr, more) == UnitInit(rt, lr, more, <<>>)

\* The call of an operation on block b goes to the log of b, when the unit keeps one.
Log(b, call) ==
    IF calls = <<>>
    THEN calls' = calls
    ELSE /\ Cardinality(UNION {{c} \X (1..Len(calls[c])) : c \in DOMAIN calls})
                < MaxCalls
         /\ calls' = [calls EXCEPT ![b] = Append(@, call)]

NewBlockGhost ==
    /\ calls' = IF calls = <<>> THEN calls ELSE Append(calls, <<>>)
    /\ allocated' = Append(allocated, {})
    /\ handed' = Append(handed, <<>>)
    /\ loop_log' = Append(loop_log, <<>>)
    /\ chain' = NoChain

\* ClassBlock(parent_block, name, global_vars)
NewClassBlock(parent_block, name, global_vars) ==
    /\ Len(blocks) < MaxBlocks
    /\ blocks' = Append(blocks, ClassBlock(blocks, parent_block, name, global_vars))
    /\ ret' = [op |-> "ClassBlock", block |-> Len(blocks) + 1]
    /\ NewBlockGhost
    /\ UNCHANGED <<strings, imports, runtime, libroot, npackages, writer,
                   first_reg, visitor, visited>>

\* FunctionBlock(parent_block, name, block_vars, is_generator)
NewFunctionBlock(parent_block, name, block_vars, is_generator) ==
    /\ Len(blocks) < MaxBlocks
    /\ blocks' = Append(blocks, FunctionBlock(blocks, parent_block, name, block_vars,
                                              is_generator))
    /\ ret' = [op |-> "FunctionBlock", block |-> Len(blocks) + 1]
    /\ NewBlockGhost
    /\ UNCHANGED <<strings, imports, runtime, libroot, npackages, writer,
                   first_reg, visitor, visited>>

(***************************************************************************)
(* Scratch variables: alloc_temp and free_temp.                            *)
(***************************************************************************)
GoTypes == {<<"*", "π", "g", ".", "O", "b", "j", "e", "c", "t">>,
            <<"b", "o", "o", "l">>}

\* expr.GeneratedTempVar(block, name, type_): an object, equal only to itself.
GeneratedTempVar(block, name, type_) ==
    [block |-> block, name |-> name, type_ |-> type_]

\* 'πTemp{:03d}'.format(temp_index)
TempName(temp_index) == <<"π", "T", "e", "m", "p">> \o Format03d(temp_index)

\* sorted(temps, key=lambda k: k.name)
RECURSIVE SortedByName(_)
SortedByName(temps) ==
    IF temps = {} THEN <<>>
    ELSE LET v == CHOOSE x \in temps :
                      \A y \in temps \ {x} : StrLess(x.name, y.name)
         IN  <<v>> \o SortedByName(temps \ {v})

\* The first v of the sorted free temps with v.type_ == type_, NoTemp if there is none.
RECURSIVE FirstOfType(_, _)
FirstOfType(sorted, type_) ==
    IF sorted = <<>> THEN NoTemp
    ELSE IF Head(sorted).type_ = type_ THEN Head(sorted)
    ELSE FirstOfType(Tail(sorted), type_)

\* alloc_temp without its line 164: the temp found stays in free_temps.
AllocTempKeepsFree(block, b, type_) ==
    LET found == FirstOfType(SortedByName(block.free_temps), type_)
    IN  IF found # NoTemp
        THEN [block |-> [block EXCEPT !.used_temps = @ \cup {found}],
              v |-> found,
              fresh |-> FALSE]
        ELSE LET v == GeneratedTempVar(b, TempName(block.temp_index + 1), type_)
             IN  [block |-> [block EXCEPT !.temp_index = @ + 1,
                                          !.used_temps = @ \cup {v}],
                  v |-> v,
                  fresh |-> TRUE]

\* alloc_temp numbering the temps of all blocks by one counter of the unit, which
\* the model has in the id of the block.
AllocTempUnitCounter(block, b, type_) ==
    LET found == FirstOfType(SortedByName(block.free_temps), type_)
    IN  IF found # NoTemp
        THEN [block |-> [block EXCEPT !.free_temps = @ \ {found},
                                      !.used_temps = @ \cup {found}],
              v |-> found,
              fresh |-> FALSE]
        ELSE LET v == GeneratedTempVar(b, TempName(block.temp_index + b), type_)
             IN  [block |-> [block EXCEPT !.temp_index = @ + 1,
                                          !.used_temps = @ \cup {v}],
                  v |-> v,
                  fresh |-> TRUE]

\* The effect of alloc_temp on a block: the block afterwards and the temp returned.
AllocTempOn(block, b, type_) ==
    LET found == FirstOfType(SortedByName(block.free_temps), type_)
    IN  IF found # NoTemp
        THEN [block |-> [block EXCEPT !.free_temps = @ \ {found},
                                      !.used_temps = @ \cup {found}],
              v |-> found,
              fresh |-> FALSE]
        ELSE LET v == GeneratedTempVar(b, TempName(block.temp_index + 1), type_)
             IN  [block |-> [block EXCEPT !.temp_index = @ + 1,
                                          !.used_temps = @ \cup {v}],
                  v |-> v,
                  fresh |-> TRUE]

\* Every temp of the unit, whichever block made it.
AllTemps == UNION {allocated[b] : b \in BlockIds}

AllocTemp(b, type_) ==
    LET r == AllocTempOn(blocks[b], b, type_)
        call == [op |-> "alloc_temp", block |-> b, type_ |-> type_, v |-> r.v,
                 raised |-> "none", was_used |-> r.v \in blocks[b].used_temps]
    IN  /\ r.fresh => Cardinality(AllTemps) < MaxTemps
        /\ blocks' = [blocks EXCEPT ![b] = r.block]
        /\ allocated' = [allocated EXCEPT ![b] = IF r.fresh THEN @ \cup {r.v} ELSE @]
        /\ ret' = call
        /\ chain' = IF chain.n = 2 /\ chain.v.block = b /\ chain.type_ = type_
                    THEN [chain EXCEPT !.n = 3]
                    ELSE [n |-> 1, type_ |-> type_, v |-> r.v]
        /\ Log(b, [op |-> "alloc_temp", arg |-> type_, result |-> r.v.name])
        /\ UNCHANGED <<strings, imports, runtime, libroot, npackages, writer,
                       handed, loop_log, first_reg, visitor, visited>>

\* free_temp without its line 176: the temp leaves used_temps and is lost.
FreeTempLoses(block, v) ==
    IF v \in block.used_temps
    THEN [block |-> [block EXCEPT !.used_temps = @ \ {v}], raised |-> "none"]
    ELSE [block |-> block, raised |-> "KeyError"]

\* free_temp with discard for remove: a temp that is not in use is freed all the same.
FreeTempDiscards(block, v) ==
    [block |-> [block EXCEPT !.used_temps = @ \ {v}, !.free_temps = @ \cup {v}],
     raised |-> "none"]

\* The effect of free_temp on a block: set.remove raises KeyError for a v that is
\* not in used_temps, before free_temps is touched.
FreeTempOn(block, v) ==
    IF v \in block.used_temps
    THEN [block |-> [block EXCEPT !.used_temps = @ \ {v},
                                  !.free_temps = @ \cup {v}],
          raised |-> "none"]
    ELSE [block |-> block, raised |-> "KeyError"]

FreeTemp(b, v) ==
    LET r == FreeTempOn(blocks[b], v)
        call == [op |-> "free_temp", block |-> b, type_ |-> v.type_, v |-> v,
                 raised |-> r.raised, was_used |-> v \in blocks[b].used_temps]
    IN  /\ blocks' = [blocks EXCEPT ![b] = r.block]
        /\ ret' = call
        /\ chain' = IF /\ ret.op = "alloc_temp" /\ ret.block = b /\ ret.v = v
                       /\ r.raised = "none"
                    THEN [n |-> 2, type_ |-> ret.type_, v |-> v]
                    ELSE NoChain
        /\ Log(b, [op |-> "free_temp", arg |-> [name |-> v.name, type_ |-> v.type_,
                                               own |-> v.block = b],
                   result |-> r.raised])
        /\ UNCHANGED <<strings, imports, runtime, libroot, npackages, writer,
                       allocated, handed, loop_log, first_reg, visitor, visited>>

(***************************************************************************)
(* Labels and loops: genlabel, push_loop, pop_loop, top_loop.              *)
(***************************************************************************)
\* Loop(start_label, end_label)
Loop(start_label, end_label) ==
    [start_label |-> start_label, end_label |-> end_label]

\* No loop: the call raised before it had one.
NoLoop == Loop(0, 0)

\* genlabel as if line 157 stood before line 155: the old count becomes the checkpoint.
GenLabelMarksOld(block, is_checkpoint) ==
    [block |-> [block EXCEPT !.label_count = @ + 1,
                             !.checkpoints = IF is_checkpoint
                                             THEN @ \cup {block.label_count}
                                             ELSE @],
     label |-> block.label_count + 1]

\* The effect of genlabel on a block: the block afterwards and the label returned.
GenLabelOn(block, is_checkpoint) ==
    LET label_count == block.label_count + 1
    IN  [block |-> [block EXCEPT !.label_count = label_count,
                                 !.checkpoints = IF is_checkpoint
                                                 THEN @ \cup {label_count}
                                                 ELSE @],
         label |-> label_count]

\* The genlabel calls and the push_loop calls made so far on block b.
LabelCalls(b) == {i \in 1..Len(handed[b]) : handed[b][i].by = "genlabel"}

LoopCalls(b) == {i \in 1..Len(loop_log[b]) : loop_log[b][i].op = "push_loop"}

GenLabel(b, is_checkpoint) ==
    LET r == GenLabelOn(blocks[b], is_checkpoint)
    IN  /\ Cardinality(UNION {LabelCalls(c) \X {c} : c \in BlockIds}) < MaxLabels
        /\ blocks' = [blocks EXCEPT ![b] = r.block]
        /\ handed' = [handed EXCEPT ![b] =
                         Append(@, [id |-> r.label, is_checkpoint |-> is_checkpoint,
                                    by |-> "genlabel"])]
        /\ ret' = [op |-> "genlabel", block |-> b, is_checkpoint |-> is_checkpoint,
                   label |-> r.label]
        /\ chain' = NoChain
        /\ Log(b, [op |-> "genlabel", arg |-> is_checkpoint, result |-> r.label])
        /\ UNCHANGED <<strings, imports, runtime, libroot, npackages, writer,
                       allocated, loop_log, first_reg, visitor, visited>>

\* The effect of push_loop: Loop(self.genlabel(), self.genlabel()), left to right.
PushLoopOn(block) ==
    LET start == GenLabelOn(block, FALSE)
        end_ == GenLabelOn(start.block, FALSE)
        loop == Loop(start.label, end_.label)
    IN  [block |-> [end_.block EXCEPT !.loop_stack = Append(@, loop)], loop |-> loop]

PushLoop(b) ==
    LET r == PushLoopOn(blocks[b])
    IN  /\ Cardinality(UNION {LoopCalls(c) \X {c} : c \in BlockIds}) < MaxLoops
        /\ blocks' = [blocks EXCEPT ![b] = r.block]
        /\ handed' = [handed EXCEPT ![b] =
                         @ \o <<[id |-> r.loop.start_label, is_checkpoint |-> FALSE,
                                 by |-> "push_loop"],
                                [id |-> r.loop.end_label, is_checkpoint |-> FALSE,
                                 by |-> "push_loop"]>>]
        /\ loop_log' = [loop_log EXCEPT ![b] =
                           Append(@, [op |-> "push_loop", loop |-> r.loop])]
        /\ ret' = [op |-> "push_loop", block |-> b, loop |-> r.loop, raised |-> "none"]
        /\ chain' = NoChain
        /\ Log(b, [op |-> "push_loop", arg |-> <<>>, result |-> r.loop])
        /\ UNCHANGED <<strings, imports, runtime, libroot, npackages, writer,
                       allocated, first_reg, visitor, visited>>

\* pop_loop with list.pop(0): the oldest loop goes.
PopLoopOldest(block) ==
    IF block.loop_stack = <<>>
    THEN [block |-> block, raised |-> "IndexError"]
    ELSE [block |-> [block EXCEPT !.loop_stack = Tail(@)], raised |-> "none"]

\* The effect of pop_loop: list.pop() removes the last item, IndexError on an empty list.
PopLoopOn(block) ==
    IF block.loop_stack = <<>>
    THEN [block |-> block, raised |-> "IndexError"]
    ELSE [block |-> [block EXCEPT !.loop_stack = SubSeq(@, 1, Len(@) - 1)],
          raised |-> "none"]

PopLoop(b) ==
    LET r == PopLoopOn(blocks[b])
    IN  /\ blocks' = [blocks EXCEPT ![b] = r.block]
        /\ loop_log' = [loop_log EXCEPT ![b] =
                           IF r.raised = "none"
                           THEN Append(@, [op |-> "pop_loop", loop |-> NoLoop])
                           ELSE @]
        /\ ret' = [op |-> "pop_loop", block |-> b, loop |-> NoLoop, raised |-> r.raised]
        /\ chain' = NoChain
        /\ Log(b, [op |-> "pop_loop", arg |-> <<>>, result |-> r.raised])
        /\ UNCHANGED <<strings, imports, runtime, libroot, npackages, writer,
                       allocated, handed, first_reg, visitor, visited>>

\* The effect of top_loop: loop_stack[-1], IndexError on an empty list.
TopLoopOn(block) ==
    IF block.loop_stack = <<>>
    THEN [block |-> block, loop |-> NoLoop, raised |-> "IndexError"]
    ELSE [block |-> block, loop |-> block.loop_stack[Len(block.loop_stack)],
          raised |-> "none"]

TopLoop(b) ==
    LET r == TopLoopOn(blocks[b])
    IN  /\ blocks' = [blocks EXCEPT ![b] = r.block]
        /\ ret' = [op |-> "top_loop", block |-> b, loop |-> r.loop, raised |-> r.raised]
        /\ chain' = NoChain
        /\ UNCHANGED <<calls, strings, imports, runtime, libroot, npackages, writer,
                       allocated, handed, loop_log, first_reg, visitor, visited>>

(***************************************************************************)
(* The unit's strings and imports: intern, add_import, add_native_import.  *)
(***************************************************************************)
MaxInternLen == 64

\* _non_word_re = re.compile('[^A-Za-z0-9_]'): whether c is outside the class.
NonWord(c) ==
    ~ \/ ord(c) \in ord("A")..ord("Z")
      \/ ord(c) \in ord("a")..ord("z")
      \/ ord(c) \in ord("0")..ord("9")
      \/ ord(c) = ord("_")

\* _non_word_re.search(s)
NonWordSearch(s) == \E i \in 1..Len(s) : NonWord(s[i])

\* util.go_str(s): s as a Go string literal (the model's characters need no escape).
go_str(s) == <<"\"">> \o s \o <<"\"">>

\* intern with >= for >: a string of exactly 64 characters is not interned.
InternShort(strs, s) ==
    IF Len(s) >= MaxInternLen \/ NonWordSearch(s)
    THEN [strings |-> strs,
          value |-> <<"π", "g", ".", "N", "e", "w", "S", "t", "r", "(">>
                        \o go_str(s) \o <<")">>]
    ELSE [strings |-> strs \cup {s}, value |-> <<"ß">> \o s]

\* The effect of intern on the unit's strings, and what it returns.
InternOn(strs, s) ==
    IF Len(s) > MaxInternLen \/ NonWordSearch(s)
    THEN [strings |-> strs,
          value |-> <<"π", "g", ".", "N", "e", "w", "S", "t", "r", "(">>
                        \o go_str(s) \o <<")">>]
    ELSE [strings |-> strs \cup {s}, value |-> <<"ß">> \o s]

Intern(b, s) ==
    LET r == InternOn(strings, s)
    IN  /\ blocks[b]._module_block = 1
        /\ strings' = r.strings
        /\ ret' = [op |-> "intern", block |-> b, s |-> s, value |-> r.value,
                   before |-> strings]
        /\ chain' = NoChain
        /\ UNCHANGED <<calls, blocks, imports, runtime, libroot, npackages, writer,
                       allocated, handed, loop_log, first_reg, visitor, visited>>

\* Package(name, alias); `not alias` holds for None and for ''.
Package(name, alias, oid) ==
    [name |-> name,
     alias |-> IF alias = <<>>
               THEN <<"π", "_">> \o [i \in 1..Len(name) |->
                                        IF name[i] = "/" THEN "Γ" ELSE name[i]]
               ELSE alias,
     oid |-> oid]

Grumpy == <<"g", "r", "u", "m", "p", "y">>

\* The dict imports with imports[name] = package.
SetItem(dict, name, package) ==
    [n \in DOMAIN dict \cup {name} |-> IF n = name THEN package ELSE dict[n]]

\* add_native_import that looks the name up before line 146 replaces it.
AddNativeImportEarlyLookup(dict, rt, count, name) ==
    LET alias == IF name = Grumpy THEN <<"π", "g">> ELSE <<>>
        name2 == IF name = Grumpy THEN rt ELSE name
    IN  IF name \in DOMAIN dict
        THEN [imports |-> dict, package |-> dict[name], count |-> count]
        ELSE LET package == Package(name2, alias, count + 1)
             IN  [imports |-> SetItem(dict, name2, package), package |-> package,
                  count |-> count + 1]

\* The effect of add_native_import on the unit's imports, and the Package returned.
\* alias None is <<>>.
AddNativeImportOn(dict, rt, count, name) ==
    LET alias == IF name = Grumpy THEN <<"π", "g">> ELSE <<>>
        name2 == IF name = Grumpy THEN rt ELSE name
    IN  IF name2 \in DOMAIN dict
        THEN [imports |-> dict, package |-> dict[name2], count |-> count]
        ELSE LET package == Package(name2, alias, count + 1)
             IN  [imports |-> SetItem(dict, name2, package), package |-> package,
                  count |-> count + 1]

\* The fully-qualified name a call registers: what the caller asked for.
CalledName(op, name) ==
    IF op = "add_import" THEN libroot \o <<"/">> \o name
    ELSE IF name = Grumpy THEN runtime
    ELSE name

ImportCall(op, b, name, r) ==
    /\ blocks[b]._module_block = 1
    /\ imports' = r.imports
    /\ npackages' = r.count
    /\ first_reg' = IF CalledName(op, name) \in DOMAIN first_reg THEN first_reg
                    ELSE SetItem(first_reg, CalledName(op, name), r.package)
    /\ ret' = [op |-> op, block |-> b, name |-> name, value |-> r.package,
               before |-> imports]
    /\ chain' = NoChain
    /\ UNCHANGED <<calls, blocks, strings, runtime, libroot, writer, allocated, handed,
                   loop_log, visitor, visited>>

AddNativeImport(b, name) ==
    ImportCall("add_native_import", b, name,
               AddNativeImportOn(imports, runtime, npackages, name))

\* add_import: add_native_import('/'.join([self.libroot, name]))
AddImport(b, name) ==
    ImportCall("add_import", b, name,
               AddNativeImportOn(imports, runtime, npackages,
                                 libroot \o <<"/">> \o name))

(***************************************************************************)
(* Var, BlockVisitor and FunctionBlockVisitor.                             *)
(*                                                                         *)
(* An ast node is a record: type is the name of its class, the other       *)
(* fields are those of the class that the visitor reads.  None is <<>>     *)
(* where a string is expected and NoNode where a node is.                  *)
(***************************************************************************)
NoNode == [type |-> "None"]

TYPE_LOCAL == 0
TYPE_PARAM == 1
TYPE_GLOBAL == 2

\* Var(name, var_type, arg_index=None); arg_index None is -1.
Var(name, var_type, arg_index) ==
    [name |-> name,
     type |-> var_type,
     init_expr |-> IF var_type = TYPE_LOCAL
                   THEN <<"π", "g", ".", "U", "n", "b", "o", "u", "n", "d",
                          "L", "o", "c", "a", "l">>
                   ELSE IF var_type = TYPE_PARAM
                   THEN <<"π", "A", "r", "g", "s", "[">> \o Str(arg_index) \o <<"]">>
                   ELSE <<>>]

NoVar == [name |-> <<>>, type |-> -1, init_expr |-> <<>>]

\* vars.get(name) on the OrderedDict vars: the Var of that name, None (NoVar) without.
Get(dict, name) ==
    IF \E i \in 1..Len(dict) : dict[i].name = name
    THEN dict[CHOOSE i \in 1..Len(dict) : dict[i].name = name]
    ELSE NoVar

\* vars[name] = var on the OrderedDict vars: a new key goes last, an old one keeps
\* its place.
Put(dict, name, var) ==
    IF \E i \in 1..Len(dict) : dict[i].name = name
    THEN [i \in 1..Len(dict) |-> IF dict[i].name = name THEN var ELSE dict[i]]
    ELSE Append(dict, var)

NoError == [msg |-> "none", name |-> <<>>]

\* util.ParseError(node, msg)
ParseError(msg, name) == [msg |-> msg, name |-> name]

\* _register_global without the TYPE_LOCAL check: a local becomes a global.
RegisterGlobalOverLocal(st, name) ==
    LET var == Get(st.vars, name)
    IN  IF var # NoVar /\ var.type = TYPE_PARAM
        THEN [st EXCEPT !.error = ParseError("is parameter and global", name)]
        ELSE [st EXCEPT !.vars = Put(@, name, Var(name, TYPE_GLOBAL, -1))]

\* _register_global without the TYPE_PARAM check: a parameter becomes a global.
RegisterGlobalOverParam(st, name) ==
    LET var == Get(st.vars, name)
    IN  IF var # NoVar /\ var.type = TYPE_LOCAL
        THEN [st EXCEPT !.error = ParseError("is used prior to global declaration", name)]
        ELSE [st EXCEPT !.vars = Put(@, name, Var(name, TYPE_GLOBAL, -1))]

\* BlockVisitor._register_global(node, name)
RegisterGlobal(st, name) ==
    LET var == Get(st.vars, name)
    IN  IF var # NoVar
        THEN IF var.type = TYPE_PARAM
             THEN [st EXCEPT !.error = ParseError("is parameter and global", name)]
             ELSE IF var.type = TYPE_LOCAL
             THEN [st EXCEPT !.error =
                                ParseError("is used prior to global declaration", name)]
             ELSE st
        ELSE [st EXCEPT !.vars = Put(@, name, Var(name, TYPE_GLOBAL, -1))]

\* _register_local without its test: the name becomes a local whatever it was.
RegisterLocalOverwrites(st, name) ==
    [st EXCEPT !.vars = Put(@, name, Var(name, TYPE_LOCAL, -1))]

\* BlockVisitor._register_local(name)
RegisterLocal(st, name) ==
    IF Get(st.vars, name) = NoVar
    THEN [st EXCEPT !.vars = Put(@, name, Var(name, TYPE_LOCAL, -1))]
    ELSE st

\* _assign_target that knows ast.Name only: the names of a tuple are missed.
AssignTargetNameOnly(st, target) ==
    IF target.type = "Name" THEN RegisterLocal(st, target.id) ELSE st

\* BlockVisitor._assign_target(target)
RECURSIVE AssignTarget(_, _)
RECURSIVE AssignTargets(_, _)
AssignTarget(st, target) ==
    IF target.type = "Name" THEN RegisterLocal(st, target.id)
    ELSE IF target.type \in {"Tuple", "List"} THEN AssignTargets(st, target.elts)
    ELSE st

\* for elt in elts: self._assign_target(elt)
AssignTargets(st, elts) ==
    IF elts = <<>> THEN st
    ELSE AssignTargets(AssignTarget(st, Head(elts)), Tail(elts))

\* s.split('.')[0]
RECURSIVE SplitDotFirst(_)
SplitDotFirst(s) ==
    IF s = <<>> \/ Head(s) = "." THEN <<>>
    ELSE <<Head(s)>> \o SplitDotFirst(Tail(s))

\* The child nodes ast.NodeVisitor.generic_visit visits, in the order of _fields;
\* a field that is None holds no node.
Opt(node) == IF node = NoNode THEN <<>> ELSE <<node>>

Children(node) ==
    CASE node.type = "Assign" -> node.targets \o <<node.value>>
      [] node.type = "AugAssign" -> <<node.target, node.value>>
      [] node.type = "For" -> <<node.target, node.iter>> \o node.body \o node.orelse
      [] node.type \in {"If", "While"} -> <<node.test>> \o node.body \o node.orelse
      [] node.type = "With" ->
            <<node.context_expr>> \o Opt(node.optional_vars) \o node.body
      [] node.type = "TryExcept" -> node.body \o node.handlers \o node.orelse
      [] node.type = "ExceptHandler" -> Opt(node.type_) \o Opt(node.name) \o node.body
      [] node.type \in {"Expr", "Return", "Yield"} -> Opt(node.value)
      [] node.type \in {"Tuple", "List"} -> node.elts
      [] node.type = "Attribute" -> <<node.value>>
      [] node.type = "Lambda" -> <<node.body>>    \* and args, which holds no statement
      [] OTHER -> <<>>

\* for x in seq: st = F(st, x), for the loops over names and aliases.
RECURSIVE RegisterGlobals(_, _)
RegisterGlobals(st, names) ==
    IF names = <<>> \/ st.error # NoError THEN st
    ELSE RegisterGlobals(RegisterGlobal(st, Head(names)), Tail(names))

RECURSIVE RegisterImports(_, _, _)
RegisterImports(st, aliases, from) ==
    IF aliases = <<>> THEN st
    ELSE LET alias == Head(aliases)
             name == IF alias.asname # <<>> THEN alias.asname
                     ELSE IF from THEN alias.name
                     ELSE SplitDotFirst(alias.name)
         IN  RegisterImports(RegisterLocal(st, name), Tail(aliases), from)

\* NodeVisitor.visit(node) for a BlockVisitor or a FunctionBlockVisitor with state
\* st: the visit_<type> method where the class has one, generic_visit otherwise.
\* An error raised ends the visit.
RECURSIVE Visit(_, _)
RECURSIVE VisitAll(_, _)
Visit(st, node) ==
    IF st.error # NoError THEN st
    ELSE CASE node.type = "Assign" ->
                Visit(AssignTargets(st, node.targets), node.value)
           [] node.type = "AugAssign" ->
                Visit(AssignTarget(st, node.target), node.value)
           [] node.type = "ClassDef" -> RegisterLocal(st, node.name)
           [] node.type = "ExceptHandler" ->
                VisitAll(IF node.name # NoNode THEN RegisterLocal(st, node.name.id)
                         ELSE st,
                         Children(node))
           [] node.type = "For" -> VisitAll(AssignTarget(st, node.target), Children(node))
           [] node.type = "FunctionDef" -> RegisterLocal(st, node.name)
           [] node.type = "Global" -> RegisterGlobals(st, node.names)
           [] node.type = "Import" -> RegisterImports(st, node.names, FALSE)
           [] node.type = "ImportFrom" -> RegisterImports(st, node.names, TRUE)
           [] node.type = "With" ->
                VisitAll(IF node.optional_vars # NoNode
                         THEN AssignTarget(st, node.optional_vars)
                         ELSE st,
                         Children(node))
           [] node.type = "Yield" /\ st.kind = "FunctionBlockVisitor" ->
                [st EXCEPT !.is_generator = TRUE]
           [] OTHER -> VisitAll(st, Children(node))

\* generic_visit: the children in order.
VisitAll(st, nodes) ==
    IF nodes = <<>> THEN st
    ELSE VisitAll(Visit(st, Head(nodes)), Tail(nodes))

\* BlockVisitor()
BlockVisitorInit ==
    [active |-> TRUE, kind |-> "BlockVisitor",
     node_args |-> [args |-> <<>>, vararg |-> <<>>, kwarg |-> <<>>],
     vars |-> <<>>, is_generator |-> FALSE, error |-> NoError]

\* The loop without its check: a repeated name takes the later index, nothing raised.
RECURSIVE RegisterParamsLastWins(_, _, _)
RegisterParamsLastWins(st, args, i) ==
    IF i >= Len(args) THEN st
    ELSE RegisterParamsLastWins(
             [st EXCEPT !.vars = Put(@, args[i + 1], Var(args[i + 1], TYPE_PARAM, i))],
             args, i + 1)

\* The loop of FunctionBlockVisitor.__init__ over enumerate(args), from index i.
RECURSIVE RegisterParams(_, _, _)
RegisterParams(st, args, i) ==
    IF i >= Len(args) \/ st.error # NoError THEN st
    ELSE LET name == args[i + 1]
         IN  RegisterParams(
                 IF Get(st.vars, name) # NoVar
                 THEN [st EXCEPT !.error = ParseError("duplicate argument", name)]
                 ELSE [st EXCEPT !.vars = Put(@, name, Var(name, TYPE_PARAM, i))],
                 args, i + 1)

\* FunctionBlockVisitor(node): node.args has args (Name nodes), vararg, kwarg.
FunctionBlockVisitorInit(node_args) ==
    LET args == [i \in 1..Len(node_args.args) |-> node_args.args[i].id]
                    \o (IF node_args.vararg # <<>> THEN <<node_args.vararg>> ELSE <<>>)
                    \o (IF node_args.kwarg # <<>> THEN <<node_args.kwarg>> ELSE <<>>)
    IN  RegisterParams([BlockVisitorInit EXCEPT !.kind = "FunctionBlockVisitor",
                                                !.node_args = node_args],
                       args, 0)

NewBlockVisitor ==
    /\ ~visitor.active
    /\ visitor' = BlockVisitorInit
    /\ ret' = [op |-> "BlockVisitor", block |-> None]
    /\ chain' = NoChain
    /\ UNCHANGED <<calls, blocks, strings, imports, runtime, libroot, npackages, writer,
                   allocated, handed, loop_log, first_reg, visited>>

NewFunctionBlockVisitor(node_args) ==
    /\ ~visitor.active
    /\ visitor' = FunctionBlockVisitorInit(node_args)
    /\ ret' = [op |-> "FunctionBlockVisitor", block |-> None]
    /\ chain' = NoChain
    /\ UNCHANGED <<calls, blocks, strings, imports, runtime, libroot, npackages, writer,
                   allocated, handed, loop_log, first_reg, visited>>

\* visitor.visit(child) for the next statement of the body; an error raised by the
\* constructor or by an earlier statement has ended the classification.
VisitStatement(node) ==
    /\ visitor.active
    /\ visitor.error = NoError
    /\ Len(visited) < MaxBody
    /\ visitor' = Visit(visitor, node)
    /\ visited' = Append(visited, node)
    /\ ret' = [op |-> "visit", block |-> None]
    /\ chain' = NoChain
    /\ UNCHANGED <<calls, blocks, strings, imports, runtime, libroot, npackages, writer,
                   allocated, handed, loop_log, first_reg>>

(***************************************************************************)
(* The scope operations bind_var, del_var and resolve_name of the three    *)
(* kinds of block.  The writer is the list of what was written to it: a    *)
(* call of write_checked_call1 or write_checked_call2 is kept as the       *)
(* format and the arguments it was given, a call of write as its text.     *)
(***************************************************************************)
\* writer.write_checked_call1(fmt, *args)
write_checked_call1(w, fmt, args) ==
    Append(w, [op |-> "write_checked_call1", fmt |-> fmt, args |-> args])

\* writer.write_checked_call2(result, fmt, *args)
write_checked_call2(w, result, fmt, args) ==
    Append(w, [op |-> "write_checked_call2", result |-> result, fmt |-> fmt,
               args |-> args])

\* writer.write(text)
write(w, text) == Append(w, [op |-> "write", text |-> text])

\* util.adjust_local_name(name): the Go identifier of the local slot of a name
adjust_local_name(name) == <<"µ">> \o name

\* expr.GeneratedLocalVar(name)
GeneratedLocalVar(name) == [kind |-> "GeneratedLocalVar", name |-> name]

ObjectType == <<"*", "π", "g", ".", "O", "b", "j", "e", "c", "t">>

nil == <<"n", "i", "l">>

\* What a scope operation works on, and what it gives: the blocks, the strings and
\* the writer afterwards, what was returned (a temp, a local, or nothing), what was
\* raised, and whether alloc_temp synthesized a temp.
Outcome(bs, strs, w, returned, result, raised, fresh) ==
    [blocks |-> bs, strings |-> strs, writer |-> w, returned |-> returned,
     result |-> result, raised |-> raised, fresh |-> fresh]

\* Block._resolve_global(writer, name) on block b
ResolveGlobalOn(bs, strs, w, b, name) ==
    LET result == AllocTempOn(bs[b], b, ObjectType)
        interned == InternOn(strs, name)
    IN  Outcome([bs EXCEPT ![b] = result.block], interned.strings,
                write_checked_call2(w, result.v, "πg.ResolveGlobal(πF, πGlobals, {})",
                                    <<interned.value>>),
                "temp", result.v, "none", result.fresh)

\* ModuleBlock.bind_var(writer, name, value)
ModuleBindVarOn(bs, strs, w, name, value) ==
    LET interned == InternOn(strs, name)
    IN  Outcome(bs, interned.strings,
                write_checked_call1(w, "πGlobals.SetItem(πF, {}.ToObject(), {})",
                                    <<interned.value, value>>),
                "none", NoTemp, "none", FALSE)

\* ModuleBlock.del_var(writer, name)
ModuleDelVarOn(bs, strs, w, name) ==
    LET interned == InternOn(strs, name)
    IN  Outcome(bs, interned.strings,
                write_checked_call1(w, "πg.DelVar(πF, πGlobals, {})",
                                    <<interned.value>>),
                "none", NoTemp, "none", FALSE)

\* ModuleBlock.resolve_name(writer, name) on the ModuleBlock b
ModuleResolveNameOn(bs, strs, w, b, name) == ResolveGlobalOn(bs, strs, w, b, name)

\* ClassBlock.bind_var(writer, name, value) on the ClassBlock b
ClassBindVarOn(bs, strs, w, b, name, value) ==
    IF name \in bs[b].global_vars
    THEN ModuleBindVarOn(bs, strs, w, name, value)
    ELSE LET interned == InternOn(strs, name)
         IN  Outcome(bs, interned.strings,
                     write_checked_call1(w, "πClass.SetItem(πF, {}.ToObject(), {})",
                                         <<interned.value, value>>),
                     "none", NoTemp, "none", FALSE)

\* ClassBlock.del_var(writer, name) on the ClassBlock b
ClassDelVarOn(bs, strs, w, b, name) ==
    IF name \in bs[b].global_vars
    THEN ModuleDelVarOn(bs, strs, w, name)
    ELSE LET interned == InternOn(strs, name)
         IN  Outcome(bs, interned.strings,
                     write_checked_call1(w, "πg.DelVar(πF, πClass, {})",
                                         <<interned.value>>),
                     "none", NoTemp, "none", FALSE)

\* The loop without its break at a var declared global: it goes on outwards.
RECURSIVE ClassOuterLocalPastGlobal(_, _, _)
ClassOuterLocalPastGlobal(bs, block, name) ==
    IF bs[block].kind = "Module"
    THEN nil
    ELSE IF /\ bs[block].kind = "Function"
            /\ Get(bs[block].vars, name) # NoVar
            /\ Get(bs[block].vars, name).type # TYPE_GLOBAL
    THEN adjust_local_name(name)
    ELSE ClassOuterLocalPastGlobal(bs, bs[block].parent_block, name)

\* The loop of ClassBlock.resolve_name from an outer block: the local it leaves.
RECURSIVE ClassOuterLocal(_, _, _)
ClassOuterLocal(bs, block, name) ==
    IF bs[block].kind = "Module"
    THEN nil
    ELSE IF bs[block].kind = "Function" /\ Get(bs[block].vars, name) # NoVar
    THEN IF Get(bs[block].vars, name).type # TYPE_GLOBAL
         THEN adjust_local_name(name)
         ELSE nil
    ELSE ClassOuterLocal(bs, bs[block].parent_block, name)

\* The operands of the call 'πg.ResolveClass(πF, πClass, {}, πGlobals, {})' that
\* ClassBlock.resolve_name writes, in the order they stand in it, for the
\* arguments that fill the two {}.
ResolveClassOperands(args) ==
    <<<<"π", "F">>, <<"π", "C", "l", "a", "s", "s">>, args[1],
      <<"π", "G", "l", "o", "b", "a", "l", "s">>, args[2]>>

\* ClassBlock.resolve_name(writer, name) on the ClassBlock b
ClassResolveNameOn(bs, strs, w, b, name) ==
    LET local == IF name \notin bs[b].global_vars
                 THEN ClassOuterLocal(bs, bs[b].parent_block, name)
                 ELSE nil
        result == AllocTempOn(bs[b], b, ObjectType)
        interned == InternOn(strs, name)
    IN  Outcome([bs EXCEPT ![b] = result.block], interned.strings,
                write_checked_call2(w, result.v,
                                    "πg.ResolveClass(πF, πClass, {}, πGlobals, {})",
                                    <<local, interned.value>>),
                "temp", result.v, "none", result.fresh)

\* FunctionBlock.bind_var(writer, name, value) on the FunctionBlock b
FunctionBindVarOn(bs, strs, w, b, name, value) ==
    IF Get(bs[b].vars, name) = NoVar
    THEN Outcome(bs, strs, w, "none", NoTemp, "KeyError", FALSE)
    ELSE IF Get(bs[b].vars, name).type = TYPE_GLOBAL
    THEN ModuleBindVarOn(bs, strs, w, name, value)
    ELSE Outcome(bs, strs,
                 write(w, adjust_local_name(name) \o <<" ", "=", " ">> \o value),
                 "none", NoTemp, "none", FALSE)

\* del_var with its two writes in the other order: the slot is set to the unbound
\* sentinel first and checked afterwards.
FunctionDelVarSentinelFirst(bs, strs, w, b, name) ==
    LET var == Get(bs[b].vars, name)
        adjusted_name == adjust_local_name(name)
    IN  IF var = NoVar
        THEN Outcome(bs, strs, w, "none", NoTemp,
                     "ParseError: cannot delete nonexistent local", FALSE)
        ELSE IF var.type = TYPE_GLOBAL
        THEN ModuleDelVarOn(bs, strs, w, name)
        ELSE Outcome(bs, strs,
                     write_checked_call1(
                         write(w, adjusted_name \o <<" ", "=", " ", "π", "g", ".", "U",
                                                    "n", "b", "o", "u", "n", "d", "L",
                                                    "o", "c", "a", "l">>),
                         "πg.CheckLocal(πF, {}, {})", <<adjusted_name, go_str(name)>>),
                     "none", NoTemp, "none", FALSE)

\* FunctionBlock.del_var(writer, name) on the FunctionBlock b
FunctionDelVarOn(bs, strs, w, b, name) ==
    LET var == Get(bs[b].vars, name)
        adjusted_name == adjust_local_name(name)
    IN  IF var = NoVar
        THEN Outcome(bs, strs, w, "none", NoTemp,
                     "ParseError: cannot delete nonexistent local", FALSE)
        ELSE IF var.type = TYPE_GLOBAL
        THEN ModuleDelVarOn(bs, strs, w, name)
        ELSE Outcome(bs, strs,
                     write(write_checked_call1(w, "πg.CheckLocal(πF, {}, {})",
                                               <<adjusted_name, go_str(name)>>),
                           adjusted_name \o <<" ", "=", " ", "π", "g", ".", "U", "n",
                                              "b", "o", "u", "n", "d", "L", "o", "c",
                                              "a", "l">>),
                     "none", NoTemp, "none", FALSE)

\* resolve_name looking at the FunctionBlock itself only, never at an outer block.
FunctionFoundVarSelfOnly(bs, block, name) == Get(bs[block].vars, name)

\* The loop of FunctionBlock.resolve_name from a block: the var it stops at, NoVar
\* when it reaches the ModuleBlock.
RECURSIVE FunctionFoundVar(_, _, _)
FunctionFoundVar(bs, block, name) ==
    IF bs[block].kind = "Module"
    THEN NoVar
    ELSE IF bs[block].kind = "Function" /\ Get(bs[block].vars, name) # NoVar
    THEN Get(bs[block].vars, name)
    ELSE FunctionFoundVar(bs, bs[block].parent_block, name)

\* FunctionBlock.resolve_name(writer, name) on the FunctionBlock b
FunctionResolveNameOn(bs, strs, w, b, name) ==
    LET var == FunctionFoundVar(bs, b, name)
    IN  IF var = NoVar \/ var.type = TYPE_GLOBAL
        THEN ResolveGlobalOn(bs, strs, w, b, name)
        ELSE Outcome(bs, strs,
                     write_checked_call1(w, "πg.CheckLocal(πF, {}, {})",
                                         <<adjust_local_name(name), go_str(name)>>),
                     "local", GeneratedLocalVar(name), "none", FALSE)

\* A call of a scope operation on block b with outcome r.
ScopeCall(op, b, name, value, r) ==
    /\ Len(writer) < MaxWrites
    /\ r.fresh => Cardinality(AllTemps) < MaxTemps
    /\ blocks' = r.blocks
    /\ strings' = r.strings
    /\ writer' = r.writer
    /\ allocated' = [allocated EXCEPT ![b] = IF r.fresh THEN @ \cup {r.result} ELSE @]
    /\ ret' = [op |-> op, block |-> b, name |-> name, value |-> value,
               returned |-> r.returned, result |-> r.result, raised |-> r.raised,
               before |-> writer, blocks_before |-> blocks]
    /\ chain' = NoChain
    /\ UNCHANGED <<calls, imports, runtime, libroot, npackages, handed, loop_log, first_reg,
                   visitor, visited>>

ModuleBindVar(b, name, value) ==
    /\ blocks[b].kind = "Module"
    /\ ScopeCall("ModuleBlock.bind_var", b, name, value,
                 ModuleBindVarOn(blocks, strings, writer, name, value))

ModuleDelVar(b, name) ==
    /\ blocks[b].kind = "Module"
    /\ ScopeCall("ModuleBlock.del_var", b, name, <<>>,
                 ModuleDelVarOn(blocks, strings, writer, name))

ModuleResolveName(b, name) ==
    /\ blocks[b].kind = "Module"
    /\ ScopeCall("ModuleBlock.resolve_name", b, name, <<>>,
                 ModuleResolveNameOn(blocks, strings, writer, b, name))

ClassBindVar(b, name, value) ==
    /\ blocks[b].kind = "Class"
    /\ ScopeCall("ClassBlock.bind_var", b, name, value,
                 ClassBindVarOn(blocks, strings, writer, b, name, value))

ClassDelVar(b, name) ==
    /\ blocks[b].kind = "Class"
    /\ ScopeCall("ClassBlock.del_var", b, name, <<>>,
                 ClassDelVarOn(blocks, strings, writer, b, name))

ClassResolveName(b, name) ==
    /\ blocks[b].kind = "Class"
    /\ ScopeCall("ClassBlock.resolve_name", b, name, <<>>,
                 ClassResolveNameOn(blocks, strings, writer, b, name))

FunctionBindVar(b, name, value) ==
    /\ blocks[b].kind = "Function"
    /\ ScopeCall("FunctionBlock.bind_var", b, name, value,
                 FunctionBindVarOn(blocks, strings, writer, b, name, value))

FunctionDelVar(b, name) ==
    /\ blocks[b].kind = "Function"
    /\ ScopeCall("FunctionBlock.del_var", b, name, <<>>,
                 FunctionDelVarOn(blocks, strings, writer, b, name))

FunctionResolveName(b, name) ==
    /\ blocks[b].kind = "Function"
    /\ ScopeCall("FunctionBlock.resolve_name", b, name, <<>>,
                 FunctionResolveNameOn(blocks, strings, writer, b, name))

DefaultRuntime == Grumpy

DefaultLibroot == <<"g", "r", "u", "m", "p", "y", "/", "l", "i", "b">>

InitTemps == ModuleBlockInit(DefaultRuntime, DefaultLibroot, <<>>)

NextTemps ==
    \/ \E p \in BlockIds : NewClassBlock(p, "C", {})
    \/ \E p \in BlockIds : NewFunctionBlock(p, "f", <<>>, FALSE)
    \/ \E b \in BlockIds, type_ \in GoTypes : AllocTemp(b, type_)
    \/ \E b \in BlockIds, v \in AllTemps : FreeTemp(b, v)

SpecTemps == InitTemps /\ [][NextTemps]_vars

\* A module and a function in it.
InitLabels ==
    ModuleBlockInit(DefaultRuntime, DefaultLibroot,
                    <<FunctionBlock(<<ModuleBlock>>, 1, "f", <<>>, FALSE)>>)

NextLabels ==
    \/ \E b \in BlockIds, is_checkpoint \in BOOLEAN : GenLabel(b, is_checkpoint)
    \/ \E b \in BlockIds : PushLoop(b)
    \/ \E b \in BlockIds : PopLoop(b)
    \/ \E b \in BlockIds : TopLoop(b)

SpecLabels == InitLabels /\ [][NextLabels]_vars

\* n times the character c.
Repeat(c, n) == [i \in 1..n |-> c]

\* The strings intern is called with: identifiers, an empty string, strings around
\* the length limit, strings with a character that is no identifier character.
InternInputs ==
    {<<>>, <<"f", "o", "o">>, <<"_", "X", "9">>, <<"a", " ", "b">>, <<"x", "-", "y">>,
     <<"π">>, Repeat("a", MaxInternLen - 1), Repeat("a", MaxInternLen),
     Repeat("a", MaxInternLen + 1), Repeat("a", 100),
     Repeat("a", MaxInternLen - 1) \o <<".">>}

NextIntern == \E b \in BlockIds, s \in InternInputs : Intern(b, s)

SpecIntern == InitLabels /\ [][NextIntern]_vars

\* The runtime and libroot a unit is compiled with.
Runtimes == {Grumpy, <<"r", "/", "t">>}

Libroots == {<<"g", "r", "u", "m", "p", "y", "/", "l", "i", "b">>, <<"r">>}

NativeNames == {Grumpy, <<"r", "/", "t">>, <<"o", "s">>}

LibNames == {<<"t">>, <<"o", "s">>}

InitImports ==
    \E rt \in Runtimes, lr \in Libroots :
        ModuleBlockInit(rt, lr, <<FunctionBlock(<<ModuleBlock>>, 1, "f", <<>>, FALSE)>>)

NextImports ==
    \/ \E b \in BlockIds, name \in NativeNames : AddNativeImport(b, name)
    \/ \E b \in BlockIds, name \in LibNames : AddImport(b, name)

SpecImports == InitImports /\ [][NextImports]_vars

(***************************************************************************)
(* The bodies the visitors are given.                                      *)
(***************************************************************************)
x == <<"x">>
y == <<"y">>
z == <<"z">>

Name(id, ctx) == [type |-> "Name", id |-> id, ctx |-> ctx]
Num == [type |-> "Num"]
Pass == [type |-> "Pass"]
Tuple(elts) == [type |-> "Tuple", elts |-> elts]
Attribute(value, attr) == [type |-> "Attribute", value |-> value, attr |-> attr]
Yield(value) == [type |-> "Yield", value |-> value]
Lambda(args, body) == [type |-> "Lambda", args |-> args, body |-> body]
Expr(value) == [type |-> "Expr", value |-> value]
Assign(targets, value) == [type |-> "Assign", targets |-> targets, value |-> value]
AugAssign(target, value) == [type |-> "AugAssign", target |-> target, value |-> value]
Global(names) == [type |-> "Global", names |-> names]
If(test, body, orelse) == [type |-> "If", test |-> test, body |-> body, orelse |-> orelse]
For(target, iter, body) ==
    [type |-> "For", target |-> target, iter |-> iter, body |-> body, orelse |-> <<>>]
With(context_expr, optional_vars, body) ==
    [type |-> "With", context_expr |-> context_expr, optional_vars |-> optional_vars,
     body |-> body]
ExceptHandler(type_, name, body) ==
    [type |-> "ExceptHandler", type_ |-> type_, name |-> name, body |-> body]
TryExcept(body, handlers) ==
    [type |-> "TryExcept", body |-> body, handlers |-> handlers, orelse |-> <<>>]
Alias(name, asname) == [type |-> "alias", name |-> name, asname |-> asname]
Import(names) == [type |-> "Import", names |-> names]
ImportFrom(names) == [type |-> "ImportFrom", names |-> names]
FunctionDef(name, body) == [type |-> "FunctionDef", name |-> name, body |-> body]
ClassDef(name, body) == [type |-> "ClassDef", name |-> name, body |-> body]
Arguments(args, vararg, kwarg) == [args |-> args, vararg |-> vararg, kwarg |-> kwarg]

\* The statements of the bodies:
Statements ==
    {Assign(<<Name(x, "Store")>>, Num),                          \* x = 1
     Assign(<<Tuple(<<Name(x, "Store"), Name(y, "Store")>>)>>,   \* x, y = z
            Name(z, "Load")),
     Assign(<<Attribute(Name(x, "Load"), <<"a">>)>>, Num),       \* x.a = 1
     AugAssign(Name(y, "Store"), Num),                           \* y += 1
     Global(<<x>>),                                              \* global x
     Global(<<y, x>>),                                           \* global y, x
     If(Name(z, "Load"), <<Global(<<x>>)>>,                      \* if z: global x
        <<Assign(<<Name(y, "Store")>>, Num)>>),                  \* else: y = 1
     For(Name(x, "Store"), Name(z, "Load"),                      \* for x in z:
         <<Expr(Yield(NoNode))>>),                               \*     yield
     With(Name(z, "Load"), Name(y, "Store"), <<Pass>>),          \* with z as y: pass
     TryExcept(<<Pass>>,                                         \* try: pass
               <<ExceptHandler(Name(z, "Load"),                  \* except z as x:
                               Name(x, "Store"),
                               <<Global(<<y>>)>>)>>),            \*     global y
     Import(<<Alias(<<"x", ".", "m">>, <<>>)>>),                 \* import x.m
     ImportFrom(<<Alias(<<"q">>, y)>>),                          \* from m import q as y
     FunctionDef(x, <<Global(<<y>>), Expr(Yield(NoNode))>>),     \* def x(): global y; yield
     ClassDef(y, <<Assign(<<Name(x, "Store")>>, Num)>>),         \* class y: x = 1
     Assign(<<Name(y, "Store")>>,                                \* y = lambda: (yield)
            Lambda([args |-> <<>>, vararg |-> <<>>, kwarg |-> <<>>], Yield(NoNode))),
     Expr(Name(y, "Load"))}                                      \* y

\* The parameter lists of the functions: (), (x), (y, *x), (x, **x).
ArgumentLists ==
    {Arguments(<<>>, <<>>, <<>>),
     Arguments(<<Name(x, "Param")>>, <<>>, <<>>),
     Arguments(<<Name(y, "Param")>>, x, <<>>),
     Arguments(<<Name(x, "Param")>>, <<>>, x)}

NextClassify ==
    \/ NewBlockVisitor
    \/ \E node_args \in ArgumentLists : NewFunctionBlockVisitor(node_args)
    \/ \E node \in Statements : VisitStatement(node)

SpecClassify == InitTemps /\ [][NextClassify]_vars

\* Functions of every parameter list: up to MaxArgs positional parameters, with or
\* without *args and **kwargs, of names that may repeat; the body assigns and
\* declares global.
ParameterLists ==
    {Arguments([i \in 1..n |-> Name(ids[i], "Param")], vararg, kwarg) :
        <<n, ids, vararg, kwarg>> \in
            UNION {{n} \X [1..n -> {x, y}] \X {<<>>, x, z} \X {<<>>, y, z} :
                      n \in 0..MaxArgs}}

NextParams ==
    \/ \E node_args \in ParameterLists : NewFunctionBlockVisitor(node_args)
    \/ \E node \in {s \in Statements : s.type \in {"Assign", "Global"}} :
          VisitStatement(node)

SpecParams == InitTemps /\ [][NextParams]_vars

\* The scopes of a unit nested one in the other under the ModuleBlock, outermost
\* first: FunctionBlocks with the vars of their classification, ClassBlocks with the
\* names their body declares global.
Scope(kind, block_vars, global_vars) ==
    [kind |-> kind, vars |-> block_vars, global_vars |-> global_vars]

ScopeOptions ==
    {Scope("Function", <<Var(x, TYPE_LOCAL, -1)>>, {}),
     Scope("Function", <<Var(x, TYPE_PARAM, 0), Var(y, TYPE_LOCAL, -1)>>, {}),
     Scope("Function", <<Var(x, TYPE_GLOBAL, -1)>>, {}),
     Scope("Class", <<>>, {}),
     Scope("Class", <<>>, {x})}

RECURSIVE Nest(_, _)
Nest(bs, scopes) ==
    IF scopes = <<>>
    THEN bs
    ELSE Nest(Append(bs, IF Head(scopes).kind = "Function"
                         THEN FunctionBlock(bs, Len(bs), "f", Head(scopes).vars, FALSE)
                         ELSE ClassBlock(bs, Len(bs), "C", Head(scopes).global_vars)),
              Tail(scopes))

Values == {<<"v">>}

InitResolve ==
    \E n \in 1..MaxDepth : \E scopes \in [1..n -> ScopeOptions] :
        ModuleBlockInit(DefaultRuntime, DefaultLibroot,
                        Tail(Nest(<<ModuleBlock>>, scopes)))

NextResolve ==
    \/ \E b \in BlockIds, name \in {x, y}, value \in Values : ModuleBindVar(b, name, value)
    \/ \E b \in BlockIds, name \in {x, y} : ModuleDelVar(b, name)
    \/ \E b \in BlockIds, name \in {x, y} : ModuleResolveName(b, name)
    \/ \E b \in BlockIds, name \in {x, y}, value \in Values : ClassBindVar(b, name, value)
    \/ \E b \in BlockIds, name \in {x, y} : ClassDelVar(b, name)
    \/ \E b \in BlockIds, name \in {x, y} : ClassResolveName(b, name)
    \/ \E b \in BlockIds, name \in {x, y}, value \in Values : FunctionBindVar(b, name, value)
    \/ \E b \in BlockIds, name \in {x, y} : FunctionDelVar(b, name)
    \/ \E b \in BlockIds, name \in {x, y} : FunctionResolveName(b, name)

SpecResolve == InitResolve /\ [][NextResolve]_vars

\* A unit of a ModuleBlock, a FunctionBlock in it and a ClassBlock in that, which
\* keeps the log of the resource calls made on each.
InitResources ==
    UnitInit(DefaultRuntime, DefaultLibroot,
             Tail(Nest(<<ModuleBlock>>, <<Scope("Function", <<>>, {}),
                                          Scope("Class", <<>>, {})>>)),
             <<<<>>, <<>>, <<>>>>)

NextResources ==
    \/ \E b \in BlockIds, type_ \in GoTypes : AllocTemp(b, type_)
    \/ \E b \in BlockIds, v \in AllTemps : FreeTemp(b, v)
    \/ \E b \in BlockIds, is_checkpoint \in BOOLEAN : GenLabel(b, is_checkpoint)
    \/ \E b \in BlockIds : PushLoop(b)
    \/ \E b \in BlockIds : PopLoop(b)

SpecResources == InitResources /\ [][NextResources]_vars

(***************************************************************************)
(* Claims about the scratch variables (under SpecTemps).                   *)
(***************************************************************************)
\* C1: in every reachable state the free and the used temps of a block are disjoint
\* and together are exactly the temps that block's alloc_temp has synthesized; and
\* alloc_temp never returns a temp that was in used_temps when it was called.
C1_FreeUsedPartition ==
    /\ \A b \in BlockIds :
            /\ blocks[b].free_temps \cap blocks[b].used_temps = {}
            /\ blocks[b].free_temps \cup blocks[b].used_temps = allocated[b]
    /\ ret.op = "alloc_temp" => ~ret.was_used /\ ret.v \in blocks[ret.block].used_temps

\* alloc_temp has just reused the temp that was freed, in a block that holds a
\* second temp in use.
C1_Witness ==
    /\ ret.op = "alloc_temp"
    /\ ret.v \in allocated[ret.block]
    /\ blocks[ret.block].temp_index = 2
    /\ Cardinality(blocks[ret.block].used_temps) = 2
    /\ chain.n = 3

\* C2: t1 = alloc_temp(T); free_temp(t1); t2 = alloc_temp(T) on one block, with no
\* call in between, gives t2 the name of t1, whatever the block held before.
C2_AllocFreeAlloc ==
    chain.n = 3 => /\ ret.op = "alloc_temp"
                   /\ ret.type_ = chain.type_
                   /\ ret.v.name = chain.v.name

\* The three calls have been made on a block that holds a second temp of the same type.
C2_Witness ==
    /\ chain.n = 3
    /\ \E v \in allocated[ret.block] : v # ret.v /\ v.type_ = ret.type_

FreeTempStep ==
    LET b == ret'.block
        v == ret'.v
    IN  IF v \in blocks[b].used_temps
        THEN /\ ret'.raised = "none"
             /\ blocks' = [blocks EXCEPT ![b].used_temps = @ \ {v},
                                         ![b].free_temps = @ \cup {v}]
        ELSE /\ ret'.raised # "none"
             /\ blocks' = blocks

\* C14: free_temp(v) succeeds exactly when v is in the block's used_temps, and then
\* v goes from used_temps to free_temps and nothing else changes; for a v that is
\* not in used_temps (freed already, or a temp of another block) it raises and
\* leaves every block as it was.
C14_FreeTempOnlyUsed == [][ret'.op = "free_temp" => FreeTempStep]_vars

\* free_temp was given a temp of another block, while the block had a temp of its
\* own in use, and raised.
C14_Witness ==
    /\ ret.op = "free_temp"
    /\ ret.raised = "KeyError"
    /\ ret.v.block # ret.block
    /\ blocks[ret.block].used_temps # {}
    /\ blocks[ret.v.block].used_temps = {ret.v}


(***************************************************************************)
(* Claims about labels and loops (under SpecLabels).                       *)
(***************************************************************************)
\* C3: over any interleaving of genlabel, push_loop and pop_loop on a block, the ids
\* handed out are 1, 2, 3, ... in this order, none skipped and none handed out twice
\* (pop_loop gives no label back), and the checkpoints are exactly the ids genlabel
\* returned when called with is_checkpoint true (never a label of push_loop).
C3_LabelsAndCheckpoints ==
    \A b \in BlockIds :
        /\ \A i \in 1..Len(handed[b]) : handed[b][i].id = i
        /\ blocks[b].label_count = Len(handed[b])
        /\ blocks[b].checkpoints =
               {handed[b][i].id : i \in {j \in LabelCalls(b) : handed[b][j].is_checkpoint}}

\* genlabel(True) has returned 4 on a block after a genlabel(False), a push_loop and
\* the pop_loop of that loop.
C3_Witness ==
    /\ ret.op = "genlabel"
    /\ ret.is_checkpoint
    /\ ret.label = 4
    /\ blocks[ret.block].checkpoints = {4}
    /\ blocks[ret.block].loop_stack = <<>>
    /\ \E i \in 1..Len(loop_log[ret.block]) : loop_log[ret.block][i].op = "pop_loop"

\* The push_loop calls of a log that no later pop_loop has matched: a push is matched
\* by the first later pop that finds every push after it already matched.
Unpopped(log) ==
    {i \in 1..Len(log) :
        /\ log[i].op = "push_loop"
        /\ \A j \in (i + 1)..Len(log) :
               Cardinality({k \in (i + 1)..j : log[k].op = "pop_loop"})
                   <= Cardinality({k \in (i + 1)..j : log[k].op = "push_loop"})}

\* The loops of those calls, oldest first.
UnpoppedLoops(log) ==
    LET live == Unpopped(log)
    IN  [n \in 1..Cardinality(live) |->
            log[CHOOSE i \in live : Cardinality({j \in live : j <= i}) = n].loop]

\* C4: the loop stack of a block is a LIFO stack of the loops push_loop returned: it
\* holds, oldest first, the loops pushed and not yet popped (so N pushes give length
\* N, N matching pops empty it); top_loop returns the last of them and changes
\* nothing; push_loop returns the loop it pushed, made of two labels not handed out
\* before, start_label < end_label.
C4_LoopStackLIFO ==
    /\ \A b \in BlockIds :
        LET log == loop_log[b]
            stack == blocks[b].loop_stack
        IN  /\ stack = UnpoppedLoops(log)
            /\ Len(stack) = Cardinality(LoopCalls(b))
                                - Cardinality({i \in 1..Len(log) : log[i].op = "pop_loop"})
            /\ \A i \in LoopCalls(b) :
                    /\ log[i].loop.start_label < log[i].loop.end_label
                    /\ \A j \in LoopCalls(b) :
                           j < i => log[j].loop.end_label < log[i].loop.start_label
                    /\ \A j \in LabelCalls(b) :
                           handed[b][j].id \notin {log[i].loop.start_label,
                                                    log[i].loop.end_label}
    /\ ret.op = "top_loop" /\ ret.raised = "none" =>
            LET stack == UnpoppedLoops(loop_log[ret.block])
            IN  stack # <<>> /\ ret.loop = stack[Len(stack)]
    /\ ret.op = "top_loop" /\ ret.raised # "none" =>
            UnpoppedLoops(loop_log[ret.block]) = <<>>
    /\ ret.op = "push_loop" =>
            LET log == loop_log[ret.block]
            IN  log # <<>> /\ log[Len(log)] = [op |-> "push_loop", loop |-> ret.loop]

\* top_loop has returned on a block after push, push, pop, push: two loops are on
\* the stack, the first and the third pushed.
C4_Witness ==
    /\ ret.op = "top_loop"
    /\ ret.raised = "none"
    /\ Len(loop_log[ret.block]) = 4
    /\ loop_log[ret.block][3].op = "pop_loop"
    /\ Len(blocks[ret.block].loop_stack) = 2
    /\ ret.loop = loop_log[ret.block][4].loop

(***************************************************************************)
(* Claims about interned strings (under SpecIntern).                       *)
(***************************************************************************)
\* The identifier alphabet: the letters, the digits and the underscore.
IdentifierChars ==
    {Lower[i] : i \in 1..Len(Lower)} \cup {Upper[i] : i \in 1..Len(Upper)}
        \cup {Digits[i] : i \in 1..Len(Digits)} \cup {"_"}

\* C5: intern(s) of a string of at most 64 identifier characters, from any block of
\* the unit, leaves the unit's strings as they were plus s (so a repeated call
\* changes nothing) and returns the reference to s, the same every time; intern of a
\* longer string or of one with any other character leaves the strings unchanged
\* and returns the fresh-literal form.
C5_InternIdempotent ==
    ret.op = "intern" =>
        IF Len(ret.s) <= 64 /\ \A i \in 1..Len(ret.s) : ret.s[i] \in IdentifierChars
        THEN /\ strings = ret.before \cup {ret.s}
             /\ ret.value = <<"ß">> \o ret.s
        ELSE /\ strings = ret.before
             /\ ret.s \notin strings
             /\ ret.value = <<"π", "g", ".", "N", "e", "w", "S", "t", "r", "(", "\"">>
                                \o ret.s \o <<"\"", ")">>

\* intern of a 64-character identifier that was interned before, called from the
\* function block; the five identifier-shaped inputs are all that was registered.
C5_Witness ==
    /\ ret.op = "intern"
    /\ ret.block = 2
    /\ Len(ret.s) = 64
    /\ ret.s \in ret.before
    /\ Cardinality(strings) = 5

(***************************************************************************)
(* Claims about imports (under SpecImports).                               *)
(***************************************************************************)
\* C6: after any add_import and add_native_import calls from the blocks of a unit,
\* imports holds one Package per fully-qualified name, the one the first call for
\* that name created; a call for a name already registered returns that Package and
\* neither adds nor replaces an entry.
C6_OneRegistrationPerName ==
    /\ \A n \in DOMAIN imports :
            /\ imports[n].name = n
            /\ n \in DOMAIN first_reg /\ imports[n] = first_reg[n]
            /\ \A m \in DOMAIN imports : imports[m].oid = imports[n].oid => m = n
    /\ ret.op \in {"add_import", "add_native_import"} =>
            /\ CalledName(ret.op, ret.name) \in DOMAIN imports
            /\ ret.value = first_reg[CalledName(ret.op, ret.name)]
            /\ CalledName(ret.op, ret.name) \in DOMAIN ret.before => imports = ret.before

\* add_import from the function block has returned the Package that
\* add_native_import('grumpy') had registered under the runtime's name.
C6_Witness ==
    /\ ret.op = "add_import"
    /\ ret.block = 2
    /\ CalledName(ret.op, ret.name) = runtime
    /\ runtime \in DOMAIN ret.before
    /\ ret.value.alias = <<"π", "g">>
    /\ Cardinality(DOMAIN imports) >= 2

\* C7: add_native_import('grumpy') returns a Package whose alias is the canonical
\* alias, and the entry of the runtime package in imports has it, whatever calls
\* came before (calls that name the runtime package by its real name included).
C7_RuntimeAliasCanonical ==
    ret.op = "add_native_import" /\ ret.name = Grumpy =>
        /\ ret.value.alias = <<"π", "g">>
        /\ imports[runtime].alias = <<"π", "g">>

(***************************************************************************)
(* Claims about classification (under SpecClassify).                       *)
(***************************************************************************)
\* What the statements of a body do to names, in source order: "bind" (assignment,
\* for, with and except targets, imports, the name of a nested def or class),
\* "global" (a global declaration), "read" (a name that is loaded), and "yield".
\* The body of a nested def or class is another scope and gives nothing.
Event(ev, name) == [ev |-> ev, name |-> name]

FirstComponent(s) ==
    IF \E i \in 1..Len(s) : s[i] = "."
    THEN SubSeq(s, 1, (CHOOSE i \in 1..Len(s) :
                          s[i] = "." /\ \A j \in 1..(i - 1) : s[j] # ".") - 1)
    ELSE s

RECURSIVE EventsOf(_)
RECURSIVE EventsOfAll(_)
EventsOf(node) ==
    CASE node.type = "Name" ->
            <<Event(IF node.ctx = "Store" THEN "bind" ELSE "read", node.id)>>
      [] node.type \in {"Tuple", "List"} -> EventsOfAll(node.elts)
      [] node.type = "Attribute" -> EventsOf(node.value)
      [] node.type = "Yield" -> EventsOf(node.value) \o <<Event("yield", <<>>)>>
      [] node.type \in {"Expr", "Return"} -> EventsOf(node.value)
      [] node.type = "Assign" -> EventsOf(node.value) \o EventsOfAll(node.targets)
      [] node.type = "AugAssign" -> EventsOf(node.value) \o EventsOf(node.target)
      [] node.type = "Global" -> [i \in 1..Len(node.names) |-> Event("global", node.names[i])]
      [] node.type \in {"If", "While"} ->
            EventsOf(node.test) \o EventsOfAll(node.body) \o EventsOfAll(node.orelse)
      [] node.type = "For" ->
            EventsOf(node.iter) \o EventsOf(node.target) \o EventsOfAll(node.body)
                \o EventsOfAll(node.orelse)
      [] node.type = "With" ->
            EventsOf(node.context_expr) \o EventsOf(node.optional_vars)
                \o EventsOfAll(node.body)
      [] node.type = "TryExcept" ->
            EventsOfAll(node.body) \o EventsOfAll(node.handlers)
                \o EventsOfAll(node.orelse)
      [] node.type = "ExceptHandler" ->
            EventsOf(node.type_) \o EventsOf(node.name) \o EventsOfAll(node.body)
      [] node.type = "Import" ->
            [i \in 1..Len(node.names) |->
                Event("bind", IF node.names[i].asname # <<>> THEN node.names[i].asname
                              ELSE FirstComponent(node.names[i].name))]
      [] node.type = "ImportFrom" ->
            [i \in 1..Len(node.names) |->
                Event("bind", IF node.names[i].asname # <<>> THEN node.names[i].asname
                              ELSE node.names[i].name)]
      [] node.type \in {"FunctionDef", "ClassDef"} -> <<Event("bind", node.name)>>
      [] OTHER -> <<>>

EventsOfAll(nodes) ==
    IF nodes = <<>> THEN <<>> ELSE EventsOf(Head(nodes)) \o EventsOfAll(Tail(nodes))

\* Where the body given so far binds (declares global, reads) the name.
At(ev, name) ==
    LET events == EventsOfAll(visited)
    IN  {i \in 1..Len(events) : events[i] = Event(ev, name)}

Before(is, js) == \E i \in is : \A j \in js : i < j

\* The names of the parameters of the function being classified.
Params ==
    {visitor.node_args.args[i].id : i \in 1..Len(visitor.node_args.args)}
        \cup ({visitor.node_args.vararg, visitor.node_args.kwarg} \ {<<>>})

Classified(name, type) == Get(visitor.vars, name).type = type

\* C8, as claimed: a `global x` that comes after any binding of x in the body fails
\* classification; a `global x` that comes before every binding of x succeeds and
\* registers x as Global, and x stays Global.
C8_GlobalOrderSensitive ==
    visitor.active =>
        \A name \in {x, y} :
            /\ (\E g \in At("global", name) : \E b \in At("bind", name) : b < g)
                   => visitor.error # NoError
            /\ At("global", name) # {} /\ Before(At("global", name), At("bind", name))
                   => /\ visitor.error.name # name
                      /\ visitor.error = NoError => Classified(name, TYPE_GLOBAL)
                      /\ ~Classified(name, TYPE_LOCAL)

\* C8: a `global x` that comes after a binding of x in the body fails classification
\* when no `global x` stands before the first binding of x; a `global x` that comes
\* before every binding of x, for an x that is no parameter, succeeds and registers
\* x as Global, and no later binding of x or `global x` changes that; a `global x`
\* for a parameter x fails classification.
C8_GlobalOrderAmended ==
    visitor.active =>
        \A name \in {x, y} :
            /\ At("global", name) # {} /\ name \in Params => visitor.error # NoError
            /\ At("global", name) # {} /\ At("bind", name) # {}
                   /\ Before(At("bind", name), At("global", name))
                   => visitor.error # NoError
            /\ At("global", name) # {} /\ Before(At("global", name), At("bind", name))
                   /\ name \notin Params
                   => /\ visitor.error.name # name
                      /\ visitor.error = NoError => Classified(name, TYPE_GLOBAL)
                      /\ ~Classified(name, TYPE_LOCAL)

\* A body of three statements was classified without error: x is declared global,
\* then bound, then declared global again, and is Global.
C8_Witness ==
    /\ visitor.active
    /\ visitor.error = NoError
    /\ Len(visited) = 3
    /\ \E g \in At("global", x), b \in At("bind", x), h \in At("global", x) :
           g < b /\ b < h
    /\ Classified(x, TYPE_GLOBAL)

\* The names the body given so far binds, declares global, reads.
Named(ev) ==
    LET events == EventsOfAll(visited)
    IN  {events[i].name : i \in {j \in 1..Len(events) : events[j].ev = ev}}

NoDuplicate(dict) ==
    \A i, j \in 1..Len(dict) : dict[i].name = dict[j].name => i = j

\* C9, as claimed: the variable map of a function body has exactly one entry for
\* every name that is a parameter, is bound, is declared global or is merely read
\* in the body, and no other entry.
C9_OneEntryPerName ==
    visitor.active /\ visitor.kind = "FunctionBlockVisitor" /\ visitor.error = NoError =>
        /\ {visitor.vars[i].name : i \in 1..Len(visitor.vars)}
               = Params \cup Named("bind") \cup Named("global") \cup Named("read")
        /\ NoDuplicate(visitor.vars)

\* C9: the variable map of a function body has exactly one entry for every name
\* that is a parameter, is bound or is declared global in the body, and no other
\* entry: a name that is merely read has none.
C9_OneEntryPerNameAmended ==
    visitor.active /\ visitor.kind = "FunctionBlockVisitor" /\ visitor.error = NoError =>
        /\ {visitor.vars[i].name : i \in 1..Len(visitor.vars)}
               = Params \cup Named("bind") \cup Named("global")
        /\ NoDuplicate(visitor.vars)

\* A function with parameters was classified without error; its body reads z, which
\* has no entry, defines a nested function and binds x and y.
C9_Witness ==
    /\ visitor.active
    /\ visitor.kind = "FunctionBlockVisitor"
    /\ visitor.error = NoError
    /\ Params # {}
    /\ z \in Named("read")
    /\ Get(visitor.vars, z) = NoVar
    /\ \E i \in 1..Len(visited) : visited[i].type = "FunctionDef"
    /\ Len(visitor.vars) = 2

\* C17: a function is marked as a generator exactly when a yield stands among the
\* statements of its own body, at any depth of loops, conditionals, handlers and
\* with blocks, and not when the only yields are in the bodies of nested functions.
C17_GeneratorExactly ==
    visitor.active /\ visitor.kind = "FunctionBlockVisitor" /\ visitor.error = NoError =>
        (visitor.is_generator <=> At("yield", <<>>) # {})

\* The names the statement classified by this step declares global.
DeclaredGlobalNow ==
    LET events == EventsOf(visited'[Len(visited')])
    IN  {events[i].name : i \in {j \in 1..Len(events) : events[j].ev = "global"}}

ClassifyStep ==
    visitor.active /\ visitor'.active /\ visited' # visited =>
        /\ Len(visitor'.vars) >= Len(visitor.vars)
        /\ \A i \in 1..Len(visitor.vars) : visitor'.vars[i] = visitor.vars[i]
        /\ \A name \in DeclaredGlobalNow :
               Get(visitor.vars, name).type \in {TYPE_LOCAL, TYPE_PARAM} => visitor'.error # NoError

\* C19: while one scope is classified, the entry of a name, once it is in the
\* variable map, never changes (kind, index, place): a binding of a name that is
\* Parameter or Global leaves it as it is, and a statement that declares global a
\* name that is Parameter or Local fails classification and leaves it as it is.
C19_EntriesNeverChange == [][ClassifyStep]_vars

\* A function with parameter x: x was assigned to in the body, then declared
\* global, which failed; x is still a parameter.
C19_Witness ==
    /\ visitor.active
    /\ visitor.kind = "FunctionBlockVisitor"
    /\ x \in Params
    /\ Len(visited) = 2
    /\ At("bind", x) # {} /\ At("global", x) # {}
    /\ Before(At("bind", x), At("global", x))
    /\ visitor.error.msg = "is parameter and global"
    /\ Get(visitor.vars, x).type = TYPE_PARAM

(***************************************************************************)
(* Claims about the parameters of a function (under SpecParams).           *)
(***************************************************************************)
\* The names of the parameters in the order of their declaration: positional, then
\* *args, then **kwargs.
Declared ==
    LET a == visitor.node_args
    IN  [i \in 1..Len(a.args) |-> a.args[i].id]
            \o (IF a.vararg = <<>> THEN <<>> ELSE <<a.vararg>>)
            \o (IF a.kwarg = <<>> THEN <<>> ELSE <<a.kwarg>>)

Repeated == \E i, j \in 1..Len(Declared) : i < j /\ Declared[i] = Declared[j]

\* C15: constructing the classifier of a function whose parameter list (positional,
\* *args, **kwargs) has some name more than once fails with the duplicate-argument
\* error, before any statement of the body is classified; for pairwise distinct
\* names it does not fail.
C15_DuplicateParameter ==
    visitor.active /\ visitor.kind = "FunctionBlockVisitor" =>
        /\ Repeated => visitor.error.msg = "duplicate argument" /\ visited = <<>>
        /\ ~Repeated /\ visited = <<>> => visitor.error = NoError

\* The classifier of a function with distinct positional parameters and the same
\* name for *args and **kwargs has failed.
C15_Witness ==
    /\ visitor.active
    /\ visitor.kind = "FunctionBlockVisitor"
    /\ Len(visitor.node_args.args) = 2
    /\ visitor.node_args.args[1].id # visitor.node_args.args[2].id
    /\ visitor.node_args.vararg = z
    /\ visitor.node_args.kwarg = z
    /\ visitor.error.msg = "duplicate argument"
    /\ visitor.error.name = z

\* The entry of the parameter declared at place i (from 1): kind Parameter, index
\* i - 1, which a Var keeps in its init_expr.
ParameterEntry(i) ==
    [name |-> Declared[i],
     type |-> TYPE_PARAM,
     init_expr |-> <<"π", "A", "r", "g", "s", "[", Digits[i], "]">>]

\* C16: for a function with pairwise distinct parameters the first entries of the
\* ordered variable map are the parameters in the order of their declaration, of
\* kind Parameter with indices 0, 1, 2, ..., at construction and after every
\* statement of the body that is classified.
C16_ParametersFirst ==
    visitor.active /\ visitor.kind = "FunctionBlockVisitor" /\ ~Repeated =>
        /\ Len(visitor.vars) >= Len(Declared)
        /\ \A i \in 1..Len(Declared) : visitor.vars[i] = ParameterEntry(i)

\* A function with at least two parameters, x among them: three statements of its
\* body were classified without error, one assigns to x, one added a name.
C16_Witness ==
    /\ visitor.active
    /\ visitor.kind = "FunctionBlockVisitor"
    /\ visitor.error = NoError
    /\ Len(Declared) >= 2
    /\ \E i \in 1..Len(Declared) : Declared[i] = x
    /\ Len(visited) = 3
    /\ \E i \in 1..3 : visited[i].type = "Assign" /\ visited[i].targets[1].type = "Name"
                            /\ visited[i].targets[1].id = x
    /\ Len(visitor.vars) > Len(Declared)

(***************************************************************************)
(* Claims about the scope operations (under SpecResolve).                  *)
(***************************************************************************)
\* The fragments the last scope operation appended to the writer.
Written == SubSeq(writer, Len(ret.before) + 1, Len(writer))

\* A fragment without the temp its result goes to: the runtime primitive called
\* and its arguments.
Lookup(fragment) == [fmt |-> fragment.fmt, args |-> fragment.args]

\* C10: ClassBlock.resolve_name(x) for an x in the class's global_vars writes the
\* lookup that ModuleBlock.resolve_name(x) writes (the same runtime primitive with
\* the same arguments, probing only the module's namespace), whatever the scopes
\* around the class.
C10_ClassGlobalResolvesAsModule ==
    ret.op = "ClassBlock.resolve_name" /\ ret.name \in blocks[ret.block].global_vars =>
        /\ Len(Written) = 1
        /\ Lookup(Written[1])
               = Lookup(ModuleResolveNameOn(blocks, strings, <<>>, 1, ret.name).writer[1])

\* The blocks from b outwards, b first and the ModuleBlock last.
RECURSIVE ScopeChain(_)
ScopeChain(b) ==
    IF blocks[b].kind = "Module" THEN <<b>>
    ELSE <<b>> \o ScopeChain(blocks[b].parent_block)

\* The kind the nearest FunctionBlock of the chain that has the name gives it, -1
\* when no FunctionBlock of the chain has the name.
NearestKind(chain_, name) ==
    LET holders == {i \in 1..Len(chain_) :
                       /\ blocks[chain_[i]].kind = "Function"
                       /\ \E k \in 1..Len(blocks[chain_[i]].vars) :
                              blocks[chain_[i]].vars[k].name = name}
        nearest == CHOOSE i \in holders : \A j \in holders : i <= j
        var == CHOOSE v \in {blocks[chain_[nearest]].vars[k] :
                                k \in 1..Len(blocks[chain_[nearest]].vars)} : v.name = name
    IN  IF holders = {} THEN -1 ELSE var.type

\* The lookup ModuleBlock.resolve_name(name) writes.
ModuleLookup(name) ==
    [fmt |-> "πg.ResolveGlobal(πF, πGlobals, {})", args |-> <<<<"ß">> \o name>>]

\* The bound-check of the local slot of a name.
BoundCheck(name) ==
    [op |-> "write_checked_call1", fmt |-> "πg.CheckLocal(πF, {}, {})",
     args |-> <<<<"µ">> \o name, <<"\"">> \o name \o <<"\"">>>>]

\* C11: FunctionBlock.resolve_name(name) is decided by the nearest FunctionBlock on
\* the chain self, parent, ... (ClassBlocks skipped) that has the name: Global, or no
\* FunctionBlock with the name, gives the lookup of Module resolution into a temp
\* that is returned; Local or Parameter gives the bound-check of the slot alone and
\* returns the slot, whatever a farther FunctionBlock holds.
C11_FunctionResolveNearest ==
    ret.op = "FunctionBlock.resolve_name" =>
        LET kind == NearestKind(ScopeChain(ret.block), ret.name)
        IN  /\ ret.raised = "none"
            /\ Len(Written) = 1
            /\ IF kind \in {-1, TYPE_GLOBAL}
               THEN /\ Written[1].op = "write_checked_call2"
                    /\ Lookup(Written[1]) = ModuleLookup(ret.name)
                    /\ ret.returned = "temp"
                    /\ ret.result = Written[1].result
                    /\ ret.result \notin ret.blocks_before[ret.block].used_temps
                    /\ ret.result \in blocks[ret.block].used_temps
               ELSE /\ Written[1] = BoundCheck(ret.name)
                    /\ ret.returned = "local"
                    /\ ret.result = [kind |-> "GeneratedLocalVar", name |-> ret.name]
                    /\ blocks = ret.blocks_before

\* resolve_name(y) was called on a FunctionBlock without y, inside a ClassBlock,
\* inside a FunctionBlock that has y as a local: the slot of y was returned.
C11_Witness ==
    /\ ret.op = "FunctionBlock.resolve_name"
    /\ ret.name = y
    /\ Len(ScopeChain(ret.block)) = 4
    /\ Get(blocks[ret.block].vars, y) = NoVar
    /\ blocks[ScopeChain(ret.block)[2]].kind = "Class"
    /\ NearestKind(ScopeChain(ret.block), y) = TYPE_LOCAL
    /\ ret.returned = "local"

\* What ModuleBlock.del_var(name) writes.
ModuleDelete(name) ==
    [op |-> "write_checked_call1", fmt |-> "πg.DelVar(πF, πGlobals, {})",
     args |-> <<<<"ß">> \o name>>]

\* The assignment of the unbound sentinel to the local slot of a name.
Unbind(name) ==
    [op |-> "write",
     text |-> <<"µ">> \o name \o <<" ", "=", " ", "π", "g", ".", "U", "n", "b", "o",
                                   "u", "n", "d", "L", "o", "c", "a", "l">>]

\* C12: FunctionBlock.del_var(name) raises and writes nothing when the block's vars
\* has no such name; writes what ModuleBlock.del_var writes when the name is Global;
\* and for a Local or Parameter writes two fragments, the bound-check of the slot
\* first and the assignment of the unbound sentinel to the slot second.
C12_FunctionDelVar ==
    ret.op = "FunctionBlock.del_var" =>
        LET kind == NearestKind(<<ret.block>>, ret.name)
        IN  /\ blocks = ret.blocks_before
            /\ kind = -1 => ret.raised # "none" /\ Written = <<>>
            /\ kind = TYPE_GLOBAL =>
                   ret.raised = "none" /\ Written = <<ModuleDelete(ret.name)>>
            /\ kind \in {TYPE_LOCAL, TYPE_PARAM} =>
                   /\ ret.raised = "none"
                   /\ Written = <<BoundCheck(ret.name), Unbind(ret.name)>>

\* del_var(x) was called on a FunctionBlock with the parameter x and wrote two
\* fragments.
C12_Witness ==
    /\ ret.op = "FunctionBlock.del_var"
    /\ ret.name = x
    /\ NearestKind(<<ret.block>>, x) = TYPE_PARAM
    /\ Len(Written) = 2

(***************************************************************************)
(* Claims about the resources of several blocks (under SpecResources).     *)
(***************************************************************************)
\* A logged call without its result.  Two blocks get the same free_temp call when
\* each is given its own temp of that name and type, or each a temp of another block.
CallOf(entry) == [op |-> entry.op, arg |-> entry.arg]

SameResults ==
    \A a, b \in BlockIds :
        \A n \in 1..Len(calls[a]) :
            /\ n <= Len(calls[b])
            /\ \A i \in 1..n : CallOf(calls[a][i]) = CallOf(calls[b][i])
            => calls[a][n].result = calls[b][n].result

\* The fields of a block that hold its resources.
Resources(block) ==
    <<block.free_temps, block.used_temps, block.temp_index, block.label_count,
      block.checkpoints, block.loop_stack>>

OthersUntouched ==
    \A c \in BlockIds : c # ret'.block => Resources(blocks'[c]) = Resources(blocks[c])

ClassLookup(captured, name) ==
    [fmt |-> "πg.ResolveClass(πF, πClass, {}, πGlobals, {})",
     args |-> <<captured, <<"ß">> \o name>>]

\* Where an operand stands in the combined lookup that was written.
Place(operand) ==
    LET operands == ResolveClassOperands(Written[1].args)
    IN  CHOOSE i \in 1..Len(operands) :
            operands[i] = operand /\ \A j \in 1..(i - 1) : operands[j] # operand

\* What C18 says of every call but the order of the operands: the local slot of the
\* name is captured exactly when the nearest FunctionBlock ancestor that has the
\* name has it as Local or Parameter, one temp of the class block is allocated, and
\* one combined lookup is written into it.
ClassResolveCaptures ==
    LET kind == NearestKind(Tail(ScopeChain(ret.block)), ret.name)
        captured == IF kind \in {TYPE_LOCAL, TYPE_PARAM}
                    THEN <<"µ">> \o ret.name
                    ELSE <<"n", "i", "l">>
        before == ret.blocks_before
    IN  /\ ret.raised = "none"
        /\ Len(Written) = 1
        /\ Written[1].op = "write_checked_call2"
        /\ Lookup(Written[1]) = ClassLookup(captured, ret.name)
        /\ Written[1].result = ret.result
        /\ ret.result \notin before[ret.block].used_temps
        /\ blocks = [before EXCEPT ![ret.block].used_temps = @ \cup {ret.result},
                                   ![ret.block].temp_index = @ + 1]

ModuleStore(name, value) ==
    [op |-> "write_checked_call1", fmt |-> "πGlobals.SetItem(πF, {}.ToObject(), {})",
     args |-> <<<<"ß">> \o name, value>>]

ClassStore(name, value) ==
    [op |-> "write_checked_call1", fmt |-> "πClass.SetItem(πF, {}.ToObject(), {})",
     args |-> <<<<"ß">> \o name, value>>]

\* The direct assignment of a value to the local slot of a name.
SlotAssignment(name, value) ==
    [op |-> "write", text |-> <<"µ">> \o name \o <<" ", "=", " ">> \o value]

\* C20: bind_var on a FunctionBlock writes what ModuleBlock.bind_var writes for a
\* name whose kind is Global, and for any other name one direct assignment to the
\* local slot of the name, without failing; on a ClassBlock it writes what
\* ModuleBlock.bind_var writes for a name in global_vars, and one store into the
\* namespace of the class for any other name.  No bind_var changes the temps, the
\* labels or the loops of a block.
C20_BindVarRoutes ==
    /\ ret.op = "FunctionBlock.bind_var" =>
           /\ ret.raised = "none"
           /\ blocks = ret.blocks_before
           /\ Written = IF NearestKind(<<ret.block>>, ret.name) = TYPE_GLOBAL
                        THEN <<ModuleStore(ret.name, ret.value)>>
                        ELSE <<SlotAssignment(ret.name, ret.value)>>
    /\ ret.op = "ClassBlock.bind_var" =>
           /\ ret.raised = "none"
           /\ blocks = ret.blocks_before
           /\ Written = IF ret.name \in blocks[ret.block].global_vars
                        THEN <<ModuleStore(ret.name, ret.value)>>
                        ELSE <<ClassStore(ret.name, ret.value)>>
    /\ ret.op = "ModuleBlock.bind_var" =>
           /\ ret.raised = "none"
           /\ blocks = ret.blocks_before
           /\ Written = <<ModuleStore(ret.name, ret.value)>>

=============================================================================
